---- MODULE Spec2Model ----
(***************************************************************************)
(* Model of modelcards/cards.py: RepoCard (parse, serialize, validate,     *)
(* push_to_hub) and ModelCard.from_template.                               *)
(*                                                                         *)
(* A document is a sequence of characters.  The characters the parser's    *)
(* regular expression tells apart are kept as they are: "-" and the two    *)
(* line breaks "\n" and "\r".  Every other element of a document stands    *)
(* for a run of one or more ordinary characters: "x" is Markdown text, the *)
(* other tokens are one line of YAML each (named after the text they stand *)
(* for).                                                                   *)
(***************************************************************************)
EXTENDS Integers, Sequences, FiniteSets, TLC

VARIABLES
    status,     \* "none" | "ok" | "raised": outcome of the last constructor call
    card,       \* the RepoCard object: [content, text, data]
    warnings,   \* logger.warning calls of the last constructor / push_to_hub call
    inp,        \* the last operation on the card: its kind and its argument
    pc,         \* position inside validate / push_to_hub
    args,       \* arguments of the running validate / push_to_hub call
    calls,      \* calls made to the collaborators by the running call, in order
    tmp,        \* the scratch directory of push_to_hub: [dir, file]
    exc         \* the exception in flight or raised by the running call

vars == <<status, card, warnings, inp, pc, args, calls, tmp, exc>>

----------------------------------------------------------------------------
(* Bounds of the model *)

\* longest opening / closing dash line of a generated document (the shortest
\* has two dashes, one short of a fence)
MaxDash == 4
\* longest document enumerated character by character
MaxLen == 5

----------------------------------------------------------------------------
(* Characters and tokens *)

NL == {"\n", "\r"}
IsNL(c) == c \in NL

Names == {"old", "new", "user", ""}

LicenseTok == "license: mit"
EmptyMapTok == "{}"
ListTok == "- item"
EmptyIndexTok == "model-index: []"
IncompleteTok == "model-index: [{name: old}]"

NameTok(n) ==
    CASE n = "old" -> "model_name: old"
      [] n = "new" -> "model_name: new"
      [] n = "user" -> "model_name: user"
      [] n = ""    -> "model_name: ''"

IndexTok(n) ==
    CASE n = "old" -> "model-index: [{name: old, results: [r]}]"
      [] n = "new" -> "model-index: [{name: new, results: [r]}]"
      [] n = "user" -> "model-index: [{name: user, results: [r]}]"
      [] n = ""    -> "model-index: [{name: '', results: [r]}]"

\* Python's None / an absent key is the empty sequence, a present value v is <<v>>
None == <<>>
Some(v) == <<v>>

\* CardData(**{}) : every field None
EmptyData == [license |-> None, model_name |-> None, eval_results |-> None]

\* the mapping yaml.safe_load returns for a header: the keys it may hold
EmptyDict == [license |-> None, model_name |-> None, model_index |-> None]

----------------------------------------------------------------------------
(* Sequences *)

RECURSIVE Split(_, _)
Split(s, seps) ==
    IF \A j \in 1..Len(s) : s[j] \notin seps
    THEN <<s>>
    ELSE LET j == CHOOSE k \in 1..Len(s) :
                      s[k] \in seps /\ \A m \in 1..(k - 1) : s[m] \notin seps
         IN  <<SubSeq(s, 1, j - 1)>> \o Split(SubSeq(s, j + 1, Len(s)), seps)

RECURSIVE Join(_, _)
Join(parts, sep) ==
    IF Len(parts) = 0 THEN <<>>
    ELSE IF Len(parts) = 1 THEN parts[1]
    ELSE parts[1] \o sep \o Join(Tail(parts), sep)

Dashes(n) == [j \in 1..n |-> "-"]

----------------------------------------------------------------------------
\* REGEX_YAML_BLOCK = ---[\n\r]+([\S\s]*?)[\n\r]+---[\n\r]([\S\s].*)   (DOTALL)

DashesAt(s, i) ==
    /\ i >= 1
    /\ i + 2 <= Len(s)
    /\ s[i] = "-" /\ s[i + 1] = "-" /\ s[i + 2] = "-"

\* length of the run of line breaks that starts at position q
RECURSIVE NLRun(_, _)
NLRun(s, q) ==
    IF q >= 1 /\ q <= Len(s) /\ IsNL(s[q]) THEN 1 + NLRun(s, q + 1) ELSE 0

\* the pattern with its last group written ([\S\s]*): nothing need follow the
\* closing line
ClosingAt_EmptyRest(s, q) ==
    LET k == NLRun(s, q) IN
    /\ k >= 1
    /\ DashesAt(s, q + k)
    /\ q + k + 3 <= Len(s)
    /\ IsNL(s[q + k + 3])

\* the pattern from the second [\n\r]+ on matches from position q to the end:
\* the run of line breaks, three dashes, one line break, one character or more
ClosingAt(s, q) ==
    LET k == NLRun(s, q) IN
    /\ k >= 1
    /\ DashesAt(s, q + k)
    /\ q + k + 3 <= Len(s)
    /\ IsNL(s[q + k + 3])
    /\ q + k + 4 <= Len(s)

\* the whole pattern matches from position i, the first [\n\r]+ taking k1
\* characters and group 1 ending just before position q
MatchAt(s, i, k1, q) ==
    /\ DashesAt(s, i)
    /\ k1 >= 1
    /\ k1 <= NLRun(s, i + 3)
    /\ q >= i + 3 + k1
    /\ ClosingAt(s, q)

\* re.search: the leftmost start; there the greedy [\n\r]+ takes the most it
\* can, the lazy group 1 the least
REGEX_YAML_BLOCK_search(s) ==
    LET n == Len(s)
        Closings == {q \in 1..n : ClosingAt(s, q)}
        Starts == {i \in 1..n : \E q \in Closings : MatchAt(s, i, 1, q)}
    IN
    IF Starts = {} THEN [found |-> FALSE, group1 |-> <<>>, group2 |-> <<>>]
    ELSE
        LET i  == CHOOSE a \in Starts : \A b \in Starts : a <= b
            K1 == {k \in 1..NLRun(s, i + 3) : \E q \in Closings : MatchAt(s, i, k, q)}
            k1 == CHOOSE a \in K1 : \A b \in K1 : a >= b
            Q  == {q \in Closings : MatchAt(s, i, k1, q)}
            q  == CHOOSE a \in Q : \A b \in Q : a <= b
        IN  [found  |-> TRUE,
             group1 |-> SubSeq(s, i + 3 + k1, q - 1),
             group2 |-> SubSeq(s, q + NLRun(s, q) + 4, n)]

----------------------------------------------------------------------------
(* YAML: the header lines the model knows, and the mappings they load to *)

IndexElem(n) == [name |-> Some(n), results |-> Some(<<"r">>)]
IncompleteElem == [name |-> Some("old"), results |-> None]

IsEntryTok(t) ==
    \/ t \in {LicenseTok, EmptyIndexTok, IncompleteTok}
    \/ \E n \in Names : t = NameTok(n) \/ t = IndexTok(n)

\* one "key: value" line read into the mapping d (a repeated key: the last wins)
LoadEntry(d, t) ==
    IF t = LicenseTok THEN [d EXCEPT !.license = Some("mit")]
    ELSE IF t = EmptyIndexTok THEN [d EXCEPT !.model_index = Some(<<>>)]
    ELSE IF t = IncompleteTok THEN [d EXCEPT !.model_index = Some(<<IncompleteElem>>)]
    ELSE IF \E n \in Names : t = NameTok(n)
    THEN [d EXCEPT !.model_name = Some(CHOOSE n \in Names : t = NameTok(n))]
    ELSE [d EXCEPT !.model_index =
              Some(<<IndexElem(CHOOSE n \in Names : t = IndexTok(n))>>)]

RECURSIVE LoadEntries(_, _)
LoadEntries(d, lines) ==
    IF lines = <<>> THEN d
    ELSE LoadEntries(LoadEntry(d, Head(lines)[1]), Tail(lines))

\* yaml.safe_load(yaml_block): "dict" with the mapping, "none" for an empty
\* document, "other" for a scalar, a list or a document YAML rejects
yaml_safe_load(block) ==
    LET lines == SelectSeq(Split(block, NL), LAMBDA l : l # <<>>) IN
    IF lines = <<>> THEN [kind |-> "none", dict |-> EmptyDict]
    ELSE IF lines = << <<EmptyMapTok>> >> THEN [kind |-> "dict", dict |-> EmptyDict]
    ELSE IF \A j \in 1..Len(lines) : Len(lines[j]) = 1 /\ IsEntryTok(lines[j][1])
    THEN [kind |-> "dict", dict |-> LoadEntries(EmptyDict, lines)]
    ELSE [kind |-> "other", dict |-> EmptyDict]

----------------------------------------------------------------------------
(* card_data.py *)

\* model_index_to_eval_results: KeyError when an element lacks "name" or
\* "results"; otherwise the name and the evaluation results, in order
RECURSIVE AllResults(_)
AllResults(model_index) ==
    IF model_index = <<>> THEN <<>>
    ELSE Head(model_index).results[1] \o AllResults(Tail(model_index))

model_index_to_eval_results(model_index) ==
    IF \E j \in 1..Len(model_index) :
           model_index[j].name = None \/ model_index[j].results = None
    THEN [KeyError |-> TRUE, model_name |-> "", eval_results |-> <<>>]
    ELSE [KeyError     |-> FALSE,
          model_name   |-> model_index[Len(model_index)].name[1],
          eval_results |-> AllResults(model_index)]

\* CardData(**data_dict)
CardData(data_dict) ==
    [license      |-> data_dict.license,
     model_name   |-> data_dict.model_name,
     eval_results |-> data_dict.eval_results]

\* CardData.to_yaml(): the fields that are not None, one per line; model_name
\* and eval_results together are written as the model-index entry
to_yaml(data) ==
    LET lic == IF data.license = None THEN <<>> ELSE << <<LicenseTok>> >>
        idx == IF data.eval_results # None
               THEN << <<IndexTok(data.model_name[1])>> >>
               ELSE IF data.model_name # None
               THEN << <<NameTok(data.model_name[1])>> >>
               ELSE <<>>
    IN  IF lic \o idx = <<>> THEN <<EmptyMapTok>> ELSE Join(lic \o idx, <<"\n">>)

----------------------------------------------------------------------------
(* RepoCard *)

NotFoundWarning == "Repo card metadata block was not found. Setting CardData to empty."
InvalidIndexWarning == "Invalid model-index. Not loading eval results into CardData."
MismatchWarning == "Set model name in CardData does not match repo name."

\* Python truthiness of None / Some(v): v a list, v a string
TruthyList(opt) == opt # None /\ opt[1] # <<>>
TruthyStr(opt) == opt # None /\ opt[1] # ""

\* lines 53-62 with the KeyError passed over in silence
LoadModelIndex_Silent(dict) ==
    LET base == [license |-> dict.license, model_name |-> dict.model_name,
                 eval_results |-> None]
        r    == model_index_to_eval_results(dict.model_index[1])
    IN
    IF ~TruthyList(dict.model_index) \/ r.KeyError
    THEN [data_dict |-> base, warnings |-> <<>>]
    ELSE [data_dict |-> [base EXCEPT !.model_name = Some(r.model_name),
                                     !.eval_results = Some(r.eval_results)],
          warnings  |-> <<>>]

\* lines 53-62: pop "model-index"; load it when it is truthy
LoadModelIndex(dict) ==
    LET base == [license |-> dict.license, model_name |-> dict.model_name,
                 eval_results |-> None]
        r    == model_index_to_eval_results(dict.model_index[1])
    IN
    IF ~TruthyList(dict.model_index) THEN [data_dict |-> base, warnings |-> <<>>]
    ELSE IF r.KeyError THEN [data_dict |-> base, warnings |-> <<InvalidIndexWarning>>]
    ELSE [data_dict |-> [base EXCEPT !.model_name = Some(r.model_name),
                                     !.eval_results = Some(r.eval_results)],
          warnings  |-> <<>>]

\* __init__ as its docstring has it: ValueError when no metadata is found
RepoCard_init_RaiseNotFound(content) ==
    LET match  == REGEX_YAML_BLOCK_search(content)
        loaded == yaml_safe_load(match.group1)
        mi     == LoadModelIndex(loaded.dict)
    IN
    IF ~match.found \/ loaded.kind # "dict"
    THEN [raised |-> TRUE, warnings |-> <<>>,
          card |-> [content |-> content, text |-> <<>>, data |-> EmptyData]]
    ELSE [raised |-> FALSE, warnings |-> mi.warnings,
          card |-> [content |-> content, text |-> match.group2,
                    data |-> CardData(mi.data_dict)]]

\* RepoCard.__init__(content)
RepoCard_init(content) ==
    LET match  == REGEX_YAML_BLOCK_search(content)
        loaded == yaml_safe_load(match.group1)
        dict   == IF match.found THEN loaded.dict ELSE EmptyDict
        text   == IF match.found THEN match.group2 ELSE content
        w1     == IF match.found THEN <<>> ELSE <<NotFoundWarning>>
        mi     == LoadModelIndex(dict)
    IN
    IF match.found /\ loaded.kind # "dict"
    THEN [raised |-> TRUE, warnings |-> <<>>,
          card |-> [content |-> content, text |-> <<>>, data |-> EmptyData]]
    ELSE [raised |-> FALSE, warnings |-> w1 \o mi.warnings,
          card |-> [content |-> content, text |-> text,
                    data |-> CardData(mi.data_dict)]]

\* __str__ without the line break between the YAML and the closing fence
RepoCard_str_NoBreak(c) ==
    <<"-", "-", "-", "\n">> \o to_yaml(c.data) \o <<"-", "-", "-", "\n">> \o c.text

\* RepoCard.__str__
RepoCard_str(c) ==
    <<"-", "-", "-", "\n">> \o to_yaml(c.data) \o <<"\n", "-", "-", "-", "\n">> \o c.text

----------------------------------------------------------------------------
(* ModelCard.from_template *)

CardDataVar == "{{ card_data }}"

\* jinja2.Template(source).render(card_data=yaml): one trailing newline of the
\* source is dropped, the variable is replaced by its value
RECURSIVE Substitute(_, _)
Substitute(source, yaml) ==
    IF source = <<>> THEN <<>>
    ELSE (IF Head(source) = CardDataVar THEN yaml ELSE <<Head(source)>>)
             \o Substitute(Tail(source), yaml)

jinja2_render(source, yaml) ==
    LET n   == Len(source)
        src == IF n > 0 /\ source[n] = "\n" THEN SubSeq(source, 1, n - 1) ELSE source
    IN  Substitute(src, yaml)

from_template(card_data, template) ==
    RepoCard_init(jinja2_render(template, to_yaml(card_data)))

----------------------------------------------------------------------------
(* Inputs *)

NoCard == <<>>

\* YAML payloads put between the fences of a generated document
Payloads ==
    { <<LicenseTok>>,
      <<LicenseTok, "\n", NameTok("old")>>,
      <<IndexTok("old")>>,
      <<NameTok("old"), "\n", IndexTok("new")>>,
      <<LicenseTok, "\n", IncompleteTok>>,
      <<EmptyIndexTok>>,
      <<EmptyMapTok>>,
      <<ListTok>>,
      <<>> }

Prefixes == { <<>>, <<"x", "\n">> }
LineBreaks == { <<"\n">>, <<"\r", "\n">>, <<"\n", "\n">> }
Terminators == { <<>>, <<"\n">>, <<"\r", "\n">> }
Bodies == { <<>>, <<"x">>, <<"x", "\n", "-", "-", "-", "\n", "x">> }

\* a document given by its parts: text, opening dash line, payload, closing
\* dash line, the rest
FencedInputs ==
    [kind : {"fenced"}, pre : Prefixes, od : 2..MaxDash, nl1 : LineBreaks,
     payload : Payloads, nl2 : {<<"\n">>, <<"\r", "\n">>}, cd : 2..MaxDash,
     term : Terminators, body : Bodies, raw : {<<>>}, data : {EmptyData}]

NoInput ==
    [kind |-> "none", pre |-> <<>>, od |-> 0, nl1 |-> <<>>, payload |-> <<>>,
     nl2 |-> <<>>, cd |-> 0, term |-> <<>>, body |-> <<>>, raw |-> <<>>,
     data |-> EmptyData]

\* every document of at most MaxLen characters over dash, line break, text
RawChars == {"-", "\n", "x"}
RawTexts == UNION { [1..n -> RawChars] : n \in 0..MaxLen }

Templates ==
    { <<"-", "-", "-", "\n", CardDataVar, "\n", "-", "-", "-", "\n", "x", "\n">>,
      <<"-", "-", "-", "\n", CardDataVar, "\n", "-", "-", "-", "\n">>,
      <<"x", "\n">> }

\* CardData objects a caller builds by hand
CardDatas ==
    { EmptyData,
      [EmptyData EXCEPT !.license = Some("mit")],
      [EmptyData EXCEPT !.model_name = Some("old")],
      [license |-> Some("mit"), model_name |-> Some("new"),
       eval_results |-> Some(<<"r">>)] }

Content(i) ==
    IF i.kind = "fenced"
    THEN i.pre \o Dashes(i.od) \o i.nl1 \o i.payload \o i.nl2 \o Dashes(i.cd)
             \o i.term \o i.body
    ELSE i.raw

----------------------------------------------------------------------------
(* The card's life: construction, template rendering, field assignment *)

Idle == pc = "idle"

PushVarsUnchanged == UNCHANGED <<pc, args, calls, tmp, exc>>

\* the caller's  card = <result>  : a raise leaves no object
Bind(r, i) ==
    /\ status' = IF r.raised THEN "raised" ELSE "ok"
    /\ card' = IF r.raised THEN card ELSE Some(r.card)
    /\ warnings' = r.warnings
    /\ inp' = i

\* card = RepoCard(content), content a generated fenced document
Construct ==
    /\ Idle /\ status = "none"
    /\ \E i \in FencedInputs : Bind(RepoCard_init(Content(i)), i)
    /\ PushVarsUnchanged

\* card = RepoCard(content), content any short text
ConstructRaw ==
    /\ Idle /\ status = "none"
    /\ \E t \in RawTexts :
           Bind(RepoCard_init(t), [NoInput EXCEPT !.kind = "raw", !.raw = t])
    /\ PushVarsUnchanged

\* card = ModelCard.from_template(card_data, template_path)
FromTemplate ==
    /\ Idle /\ status = "none"
    /\ \E d \in CardDatas, t \in Templates :
           Bind(from_template(d, t),
                [NoInput EXCEPT !.kind = "template", !.raw = t, !.data = d])
    /\ PushVarsUnchanged

\* card.data.model_name = n
SetModelName ==
    /\ Idle
    /\ card # NoCard
    /\ \E n \in Names :
           /\ card' = Some([card[1] EXCEPT !.data.model_name = Some(n)])
           /\ inp' = [NoInput EXCEPT !.kind = "model_name", !.raw = <<n>>]
    /\ UNCHANGED <<status, warnings>>
    /\ PushVarsUnchanged

----------------------------------------------------------------------------
(* validate and push_to_hub, one step per statement that calls out *)

NoTmp == [dir |-> FALSE, file |-> None]
NoArgs ==
    [op |-> "none", repo_id |-> <<>>, repo_type |-> None, body_type |-> "",
     entry_name |-> None]

RepoTypes == {None, Some("model"), Some("dataset"), Some("space"), Some("bogus")}

\* repository identifiers, "/" a character of its own
RepoIds ==
    { <<"new">>, <<"user", "/", "new">>, <<"user", "/", "old">>, <<"user", "/">>,
      <<"user", "/", "old", "/", "new">> }

\* repo_id.split("/")[0] in place of [-1]
repo_name_First(repo_id) ==
    LET segs == Split(repo_id, {"/"})
    IN  IF segs[1] = <<>> THEN "" ELSE segs[1][1]

\* repo_id.split("/")[-1]
repo_name(repo_id) ==
    LET segs == Split(repo_id, {"/"})
        last == segs[Len(segs)]
    IN  IF last = <<>> THEN "" ELSE last[1]

Event(call, repo_type, content, outcome) ==
    [call |-> call, repo_type |-> repo_type, content |-> content, outcome |-> outcome]

Quiescent == pc \in {"idle", "returned", "raised"}

\* lines 172-179: the name check of push_to_hub; the card after it
NameMismatch(data, repo_id) ==
    TruthyStr(data.model_name) /\ data.model_name[1] # repo_name(repo_id)

\* the new name bound to a local instead of assigned to self.data.model_name
FixName_Local(c, repo_id) == c

FixName(c, repo_id) ==
    IF NameMismatch(c.data, repo_id)
    THEN [c EXCEPT !.data.model_name = Some(repo_name(repo_id))]
    ELSE c

\* card.push_to_hub(repo_id, repo_type=repo_type) is called: lines 172-179
PushCall ==
    /\ Quiescent
    /\ card # NoCard
    /\ \E repo_id \in RepoIds, repo_type \in RepoTypes :
           /\ args' = [op |-> "push", repo_id |-> repo_id, repo_type |-> repo_type,
                       body_type |-> "", entry_name |-> card[1].data.model_name]
           /\ warnings' = IF NameMismatch(card[1].data, repo_id)
                          THEN <<MismatchWarning>> ELSE <<>>
           /\ card' = Some(FixName(card[1], repo_id))
    /\ pc' = "validate"
    /\ calls' = <<>>
    /\ tmp' = NoTmp
    /\ exc' = "none"
    /\ UNCHANGED <<status, inp>>

\* card.validate(repo_type=repo_type) is called by the user
ValidateCall ==
    /\ Quiescent
    /\ card # NoCard
    /\ \E repo_type \in RepoTypes :
           args' = [op |-> "validate", repo_id |-> <<>>, repo_type |-> repo_type,
                    body_type |-> "", entry_name |-> card[1].data.model_name]
    /\ pc' = "validate"
    /\ calls' = <<>>
    /\ warnings' = <<>>
    /\ tmp' = NoTmp
    /\ exc' = "none"
    /\ UNCHANGED <<status, card, inp>>

\* lines 118-119
NormalizeRepoType(repo_type) == IF repo_type = None THEN "model" ELSE repo_type[1]

\* line 122 without the membership test
RepoTypeAccepted_Any(repo_type) == TRUE

\* line 122
RepoTypeAccepted(repo_type) == repo_type \in {"model", "space", "dataset"}

\* validate, lines 118-131: the argument check, then the request body
ValidateCheck ==
    /\ pc = "validate"
    /\ LET repo_type == NormalizeRepoType(args.repo_type) IN
       IF RepoTypeAccepted(repo_type)
       THEN /\ pc' = "post"
            /\ args' = [args EXCEPT !.body_type = repo_type]
            /\ exc' = exc
       ELSE /\ pc' = "raised"
            /\ exc' = "RuntimeError: repo_type"
            /\ args' = args
    /\ UNCHANGED <<status, card, warnings, inp, calls, tmp>>

\* what requests.post / raise_for_status may do
PostOutcomes == {"200", "400", "500", "ConnectionError"}

\* lines 139-143 with the 400 answer swallowed instead of raised
ValidateError_Swallow400(outcome) ==
    CASE outcome = "200" -> "none"
      [] outcome = "400" -> "none"
      [] outcome = "500" -> "HTTPError"
      [] outcome = "ConnectionError" -> "ConnectionError"

\* lines 139-143: the exception validate raises for an outcome of the request
ValidateError(outcome) ==
    CASE outcome = "200" -> "none"
      [] outcome = "400" -> "RuntimeError: r.text"
      [] outcome = "500" -> "HTTPError"
      [] outcome = "ConnectionError" -> "ConnectionError"

\* where a call goes once validate has returned
AfterValidate(op) == IF op = "push" THEN "tmpdir" ELSE "returned"

\* validate, lines 134-143: the POST and what becomes of its answer
ValidatePost ==
    /\ pc = "post"
    /\ \E outcome \in PostOutcomes :
           /\ calls' = Append(calls, Event("requests.post", Some(args.body_type),
                                           RepoCard_str(card[1]), outcome))
           /\ exc' = ValidateError(outcome)
           /\ pc' = IF ValidateError(outcome) = "none"
                    THEN AfterValidate(args.op) ELSE "raised"
    /\ UNCHANGED <<status, card, warnings, inp, args, tmp>>

\* line 184: tempfile.TemporaryDirectory().__enter__
EnterTmpDir ==
    /\ pc = "tmpdir"
    /\ tmp' = [dir |-> TRUE, file |-> None]
    /\ calls' = Append(calls, Event("TemporaryDirectory", None, <<>>, "ok"))
    /\ pc' = "write"
    /\ UNCHANGED <<status, card, warnings, inp, args, exc>>

\* lines 185-186: tmp_path.write_text(str(self)), which the disk may refuse
WriteTmp ==
    /\ pc = "write"
    /\ \/ /\ tmp' = [tmp EXCEPT !.file = Some(RepoCard_str(card[1]))]
          /\ calls' = Append(calls, Event("write_text", None, RepoCard_str(card[1]), "ok"))
          /\ pc' = "upload"
          /\ exc' = exc
       \/ /\ calls' = Append(calls, Event("write_text", None, <<>>, "OSError"))
          /\ exc' = "OSError"
          /\ pc' = "exit"
          /\ tmp' = tmp
    /\ UNCHANGED <<status, card, warnings, inp, args>>

\* lines 187-197: upload_file(path_or_fileobj=tmp_path, ...) returns or raises
Upload ==
    /\ pc = "upload"
    /\ \E outcome \in {"ok", "UploadError"} :
           /\ calls' = Append(calls, Event("upload_file", args.repo_type,
                                           tmp.file[1], outcome))
           /\ exc' = IF outcome = "ok" THEN "none" ELSE outcome
    /\ pc' = "exit"
    /\ UNCHANGED <<status, card, warnings, inp, args, tmp>>

\* a directory removed after the upload only, not in a finally / with block
Cleanup_OnSuccess(t, e) == IF e = "none" THEN NoTmp ELSE t

\* what TemporaryDirectory.__exit__ leaves of the directory
Cleanup(t, e) == NoTmp

\* the end of the with block: __exit__ runs whether or not an exception is in
\* flight, then push_to_hub returns or the exception goes on to the caller
ExitTmpDir ==
    /\ pc = "exit"
    /\ tmp' = Cleanup(tmp, exc)
    /\ pc' = IF exc = "none" THEN "returned" ELSE "raised"
    /\ UNCHANGED <<status, card, warnings, inp, args, calls, exc>>

----------------------------------------------------------------------------
(* Specifications *)

Init ==
    /\ status = "none"
    /\ card = NoCard
    /\ warnings = <<>>
    /\ inp = NoInput
    /\ pc = "idle"
    /\ args = NoArgs
    /\ calls = <<>>
    /\ tmp = NoTmp
    /\ exc = "none"

Next ==
    \/ Construct
    \/ ConstructRaw
    \/ FromTemplate
    \/ SetModelName

\* the life of one card up to the point where it is published
Spec == Init /\ [][Next]_vars

\* documents of the cards that get published
PushInputs ==
    { [NoInput EXCEPT !.kind = "fenced", !.od = 3, !.nl1 = <<"\n">>, !.payload = p,
                      !.nl2 = <<"\n">>, !.cd = 3, !.term = <<"\n">>, !.body = <<"x">>] :
        p \in { <<LicenseTok>>, <<NameTok("old")>>, <<NameTok("new")>>,
                <<NameTok("")>>, <<LicenseTok, "\n", IndexTok("old")>> } }
    \cup { [NoInput EXCEPT !.kind = "raw", !.raw = t] : t \in {<<>>, <<"x">>} }

InitPush ==
    /\ \E i \in PushInputs :
           /\ inp = i
           /\ card = Some(RepoCard_init(Content(i)).card)
           /\ warnings = RepoCard_init(Content(i)).warnings
    /\ status = "ok"
    /\ pc = "idle"
    /\ args = NoArgs
    /\ calls = <<>>
    /\ tmp = NoTmp
    /\ exc = "none"

NextPush ==
    \/ PushCall
    \/ ValidateCall
    \/ ValidateCheck
    \/ ValidatePost
    \/ EnterTmpDir
    \/ WriteTmp
    \/ Upload
    \/ ExitTmpDir

\* validate and push_to_hub on a constructed card
SpecPush == InitPush /\ [][NextPush]_vars

----------------------------------------------------------------------------
(* Properties of validate and push_to_hub, checked under SpecPush *)

Pushing == args.op = "push"

CallsOf(name) == {j \in 1..Len(calls) : calls[j].call = name}

\* the last "/"-separated segment of the repository identifier
ShortName(repo_id) ==
    IF repo_id = <<>> \/ repo_id[Len(repo_id)] = "/" THEN "" ELSE repo_id[Len(repo_id)]

\* the repo_type the caller gave, None read as "model"
GivenRepoType == IF args.repo_type = None THEN "model" ELSE args.repo_type[1]

\* validation has failed in the running push_to_hub call
ValidationFailed ==
    /\ Pushing
    /\ \/ exc = "RuntimeError: repo_type"
       \/ \E j \in CallsOf("requests.post") : calls[j].outcome # "200"

\* C1: in a push_to_hub call the upload collaborator is invoked only after a
\* validation request, made with the given repo_type, has succeeded; once
\* validation has failed the call has raised the validation error and neither
\* a scratch directory nor an upload appears among its calls.
C1_ValidateBeforeUpload ==
    /\ \A j \in CallsOf("upload_file") :
           \E k \in CallsOf("requests.post") :
               /\ k < j
               /\ calls[k].outcome = "200"
               /\ calls[k].repo_type = Some(GivenRepoType)
    /\ ValidationFailed =>
           /\ pc = "raised"
           /\ exc \in {"RuntimeError: repo_type", "RuntimeError: r.text",
                       "HTTPError", "ConnectionError"}
           /\ CallsOf("upload_file") = {}
           /\ CallsOf("TemporaryDirectory") = {}

C1_Witness ==
    /\ Pushing /\ pc = "raised" /\ exc = "RuntimeError: r.text"
    /\ \E j \in CallsOf("requests.post") : calls[j].outcome = "400"

\* C2: once push_to_hub has returned or raised, whether the upload returned,
\* the upload raised, the write failed or validation failed, neither the
\* scratch directory nor the README.md in it exists.
C2_TmpRemoved ==
    (Pushing /\ pc \in {"returned", "raised"}) => (~tmp.dir /\ tmp.file = None)

C2_Witness ==
    /\ Pushing /\ pc = "raised" /\ exc = "UploadError"
    /\ CallsOf("TemporaryDirectory") # {}
    /\ ~tmp.dir

\* model_name was set (not None, not empty) when push_to_hub was entered and
\* was not the repository's short name
EntryMismatch ==
    /\ args.entry_name # None
    /\ args.entry_name[1] # ""
    /\ args.entry_name[1] # ShortName(args.repo_id)

\* C3: when push_to_hub has returned: if model_name was set (a non-empty
\* name, as line 174 tests it) and differed from the last segment of repo_id,
\* model_name is that segment and the mismatch warning was logged; otherwise
\* model_name is what it was and nothing was logged.
C3_NameCorrection ==
    (Pushing /\ pc = "returned") =>
        IF EntryMismatch
        THEN /\ card[1].data.model_name = Some(ShortName(args.repo_id))
             /\ warnings = <<MismatchWarning>>
        ELSE /\ card[1].data.model_name = args.entry_name
             /\ warnings = <<>>

C3_Witness ==
    /\ Pushing /\ pc = "returned"
    /\ args.entry_name = Some("old")
    /\ args.repo_id = <<"user", "/", "new">>
    /\ card[1].data.model_name = Some("new")
    /\ warnings = <<MismatchWarning>>

\* C6: every validation request carries the given repo_type with None read as
\* "model", and that type is one of model, dataset, space; with any other
\* repo_type the call (validate, or push_to_hub through it) raises at the
\* argument check having made no call at all: no request, no upload.
C6_RepoTypeChecked ==
    /\ \A j \in CallsOf("requests.post") :
           /\ calls[j].repo_type = Some(GivenRepoType)
           /\ GivenRepoType \in {"model", "dataset", "space"}
    /\ (args.op # "none" /\ pc # "validate"
            /\ GivenRepoType \notin {"model", "dataset", "space"}) =>
           /\ pc = "raised"
           /\ exc = "RuntimeError: repo_type"
           /\ calls = <<>>

C6_Witness ==
    /\ Pushing /\ args.repo_type = Some("bogus")
    /\ pc = "raised" /\ calls = <<>>

\* the document carries the name n in its header
CarriesName(doc, n) ==
    /\ \E j \in 1..Len(doc) : doc[j] \in {NameTok(n), IndexTok(n)}
    /\ \A j \in 1..Len(doc), m \in Names \ {n} : doc[j] \notin {NameTok(m), IndexTok(m)}

\* C10: if model_name was set and differed from the short name when
\* push_to_hub was entered, then from the name check on, at every later
\* position and on every exit (returned, validation failed, write or upload
\* failed), model_name is the short name; and the document posted for
\* validation, the one written to the scratch file and the one uploaded all
\* carry the short name.
C10_RewriteKept ==
    (Pushing /\ EntryMismatch) =>
        /\ card[1].data.model_name = Some(ShortName(args.repo_id))
        /\ \A j \in 1..Len(calls) :
               (calls[j].call \in {"requests.post", "upload_file"}
                    \/ (calls[j].call = "write_text" /\ calls[j].outcome = "ok"))
               => CarriesName(calls[j].content, ShortName(args.repo_id))
        /\ tmp.file # None => CarriesName(tmp.file[1], ShortName(args.repo_id))

C10_Witness ==
    /\ Pushing /\ EntryMismatch
    /\ pc = "raised" /\ exc = "HTTPError"
    /\ args.entry_name = Some("old")
    /\ card[1].data.model_name = Some("new")

----------------------------------------------------------------------------
(* Properties of construction and serialization, checked under Spec *)

\* the card is as its constructor left it
Constructed == status # "none" /\ inp.kind \in {"fenced", "raw", "template"}

\* the text the constructor was given
InputText ==
    IF inp.kind = "template"
    THEN jinja2_render(inp.raw, to_yaml(inp.data))
    ELSE Content(inp)

\* RepoCard(str(card))
Reparsed == RepoCard_init(RepoCard_str(card[1]))

\* C4: a card built from a document with an opening fence, a YAML mapping and a
\* closing fence serializes to a document that parses without error to the
\* same body text and to equal CardData.
C4_RoundTrip ==
    (Constructed /\ status = "ok" /\ inp.kind = "fenced"
         /\ yaml_safe_load(inp.payload).kind = "dict") =>
        /\ ~Reparsed.raised
        /\ Reparsed.card.text = card[1].text
        /\ Reparsed.card.data = card[1].data

C4_Witness ==
    /\ Constructed /\ status = "ok" /\ inp.kind = "fenced"
    /\ inp.payload = <<NameTok("old"), "\n", IndexTok("new")>>
    /\ inp.nl1 = <<"\r", "\n">>
    /\ card[1].data.eval_results = Some(<<"r">>)
    /\ card[1].text = <<"x", "\n", "-", "-", "-", "\n", "x">>
    /\ Reparsed.card.data = card[1].data

\* the document is "---", a line break, YAML, a line break, "---", a line
\* break, and the body
WellFormed(doc, c) ==
    doc = <<"-", "-", "-", "\n">> \o to_yaml(c.data) \o <<"\n", "-", "-", "-", "\n">>
              \o c.text

\* C5: for every card, however it came about (any text, a template, an
\* assigned field), str(card) is a well-formed document in which the parser
\* finds the metadata block, and parsing it gives the same body text and equal
\* metadata.
C5_StrIsInverse ==
    card # NoCard =>
        /\ WellFormed(RepoCard_str(card[1]), card[1])
        /\ REGEX_YAML_BLOCK_search(RepoCard_str(card[1])).found
        /\ ~Reparsed.raised
        /\ Reparsed.card.text = card[1].text
        /\ Reparsed.card.data = card[1].data

\* no three dashes followed by a line break with, further on, a line break
\* followed by three dashes
NoFence(t) ==
    ~ \E i \in 1..Len(t), j \in 1..Len(t) :
          /\ DashesAt(t, i) /\ i + 3 <= Len(t) /\ IsNL(t[i + 3])
          /\ j >= i + 4 /\ IsNL(t[j]) /\ DashesAt(t, j + 1)

WellFenced ==
    /\ inp.kind = "fenced"
    /\ inp.od >= 3 /\ inp.cd = 3
    /\ inp.term # <<>>
    /\ Tail(inp.term) \o inp.body # <<>>

PayloadHas(t) == \E j \in 1..Len(inp.payload) : inp.payload[j] = t

\* C8 as claimed: a model-index in the header that is not loaded is dropped
\* with a warning, construction succeeding; a complete one gives its name as
\* model_name and non-empty eval_results.
C8_DroppedWithWarning ==
    (Constructed /\ WellFenced) =>
        /\ (PayloadHas(EmptyIndexTok) \/ PayloadHas(IncompleteTok)) =>
               /\ status = "ok"
               /\ card[1].data.eval_results = None
               /\ InvalidIndexWarning \in {warnings[j] : j \in 1..Len(warnings)}
        /\ \A n \in Names : PayloadHas(IndexTok(n)) =>
               /\ status = "ok"
               /\ card[1].data.model_name = Some(n)
               /\ card[1].data.eval_results # None
               /\ card[1].data.eval_results[1] # <<>>

\* C8 amended: a model-index that lacks a sub-key is dropped with the warning,
\* construction succeeding; an empty model-index is dropped with no warning
\* at all; a complete one gives its name as model_name and non-empty
\* eval_results.
C8_DroppedWarnsUnlessEmpty ==
    (Constructed /\ WellFenced) =>
        /\ PayloadHas(IncompleteTok) =>
               /\ status = "ok"
               /\ card[1].data.eval_results = None
               /\ warnings = <<InvalidIndexWarning>>
        /\ PayloadHas(EmptyIndexTok) =>
               /\ status = "ok"
               /\ card[1].data.eval_results = None
               /\ warnings = <<>>
        /\ \A n \in Names : PayloadHas(IndexTok(n)) =>
               /\ status = "ok"
               /\ card[1].data.model_name = Some(n)
               /\ card[1].data.eval_results # None
               /\ card[1].data.eval_results[1] # <<>>
               /\ warnings = <<>>

C8_Witness ==
    /\ Constructed /\ WellFenced /\ status = "ok"
    /\ PayloadHas(IncompleteTok)
    /\ card[1].data.license = Some("mit")
    /\ card[1].data.eval_results = None
    /\ warnings = <<InvalidIndexWarning>>

\* the document is an opening line of three dashes or more, a YAML mapping, a
\* closing line of three dashes or more ended by a line break, and the rest
DashLinesAndMapping ==
    /\ Constructed
    /\ inp.kind = "fenced"
    /\ inp.pre = <<>>
    /\ inp.od >= 3 /\ inp.cd >= 3
    /\ inp.term # <<>>
    /\ yaml_safe_load(inp.payload).kind = "dict"

\* nowhere three dashes in a row
NoDashLine(t) == ~ \E i \in 1..Len(t) : DashesAt(t, i)

\* the CardData the payload stands for
PayloadData == CardData(LoadModelIndex(yaml_safe_load(inp.payload).dict).data_dict)

====
